---- MODULE Spec2Model ----
(***************************************************************************)
(* State-machine model of the meal-planning agents' pipeline:              *)
(*   balanced_diet_agent.py, waste_reduction_agent.py,                     *)
(*   recipe_generator_with_search.py, shopping_normalizer.py (standalone   *)
(*   handlers with a main), and the validators of meal_planner.py,         *)
(*   recipe_generator.py, feedback_compactor.py.                           *)
(* One run: a request is read, the prompt is built, the backend is called, *)
(* its text is sanitized, parsed and validated, and a result is returned,  *)
(* a fallback is synthesized, or an exception leaves the pipeline.         *)
(***************************************************************************)
EXTENDS Integers, Sequences, FiniteSets, TLC

VARIABLES uc, req, pc, calls, gw, raw, text, result, exc, why, named, status, out

vars == <<uc, req, pc, calls, gw, raw, text, result, exc, why, named, status, out>>

\* Concurrent calls of the pipeline functions in one process: the local state of
\* every call, the backend's answer to it, the response_text of the calls, and the
\* module-level model object they all use.
VARIABLES runs, answers, response_text, model

pvars == <<runs, answers, response_text, model>>

(***************************************************************************)
(* Bounds of the model.                                                    *)
(***************************************************************************)
\* longest weeklyPlan of a diet-balance request
MaxPlan == 2
\* longest history of a diet-balance request
MaxHist == 1

(***************************************************************************)
(* Use cases.                                                              *)
(***************************************************************************)
Handlers == {"diet", "waste", "web", "shop"}
Validators == {"plan", "recipe", "feedback"}
UseCases == Handlers \cup Validators

(***************************************************************************)
(* JSON values as the code reads them.  A parsed value is described by its *)
(* Python type (kind), the names for which (name in value) is true (keys:  *)
(* the keys of an object, the elements of a list, the substrings of a      *)
(* string), which of the keys hold a list / an object, the ingredient      *)
(* names it lists, the day -> recipe id mapping of a plan, and whether it  *)
(* carries fallbackUsed = true.                                            *)
(***************************************************************************)
RecipeIds == {"r1", "r2"}
RequiredDays == <<"monday", "tuesday", "wednesday", "thursday", "friday", "saturday", "sunday">>
DaySet == {RequiredDays[i] : i \in 1..Len(RequiredDays)}

NoDays == [d \in {} |-> "r1"]
AllDays(id) == [d \in DaySet |-> id]

\* a key of the days object that is no weekday
ExtraDay == "funday"
\* the days object with one more key
WithExtra(days, id) == [x \in DOMAIN days \cup {ExtraDay} |-> IF x = ExtraDay THEN id ELSE days[x]]
\* the keys of a days object in the order of the document: the weekdays in their
\* usual order, then the extra key
KeyOrder(days) == SelectSeq(RequiredDays \o <<ExtraDay>>, LAMBDA x : x \in DOMAIN days)

Doc(kind, keys, lists, dicts) ==
    [kind |-> kind, keys |-> keys, lists |-> lists, dicts |-> dicts,
     ings |-> {}, days |-> NoDays, daysKind |-> "none", order |-> <<>>, flag |-> FALSE,
     items |-> <<>>, variety |-> "none", macros |-> <<>>]

\* an entry of a shopping list: a name and a quantity, a number with a unit
Entry(name, qty, unit) == [name |-> name, qty |-> qty, unit |-> unit]

ShopDoc(items) ==
    [Doc("list", {}, {}, {}) EXCEPT !.items = items, !.ings = {items[i].name : i \in 1..Len(items)}]

DietKeys == <<"updatedWeeklyPlan", "replacements", "metrics">>
WasteKeys == <<"optimizedRecipes", "shoppingList", "substitutionSuggestions">>
WebRequired == <<"title", "ingredients", "steps", "cookTimeMins">>
RecipeRequired == <<"id", "title", "ingredients", "steps", "cookTimeMins", "tags", "servings">>
FeedbackLists == <<"likes", "dislikes", "intolerances">>

Range(s) == {s[i] : i \in 1..Len(s)}

RecipeDoc(keys, ings) ==
    [Doc("obj", keys, keys \cap {"ingredients", "steps", "tags"}, {}) EXCEPT !.ings = ings]

PlanDoc(keys, daysKind, days) ==
    [Doc("obj", keys, {}, keys \cap {"days"}) EXCEPT
        !.days = days, !.daysKind = daysKind, !.order = KeyOrder(days)]

DocOf ==
    \* diet balance
    "d_full" :> [Doc("obj", Range(DietKeys), {"updatedWeeklyPlan", "replacements"}, {"metrics"})
                    EXCEPT !.variety = "high", !.macros = <<300, 400, 300>>] @@
    "d_nometrics" :> Doc("obj", {"updatedWeeklyPlan", "replacements"}, {"updatedWeeklyPlan", "replacements"}, {}) @@
    "d_empty" :> Doc("obj", {}, {}, {}) @@
    "d_forged" :> [Doc("obj", Range(DietKeys) \cup {"error", "fallbackUsed"},
                       {"updatedWeeklyPlan", "replacements"}, {"metrics"}) EXCEPT !.flag = TRUE] @@
    "d_list" :> Doc("list", {}, {}, {}) @@
    "d_str" :> Doc("str", Range(DietKeys), {}, {}) @@
    "d_num" :> Doc("num", {}, {}, {}) @@
    \* waste reduction
    "w_full" :> Doc("obj", Range(WasteKeys), Range(WasteKeys), {}) @@
    "w_partial" :> Doc("obj", {"optimizedRecipes"}, {"optimizedRecipes"}, {}) @@
    "w_num" :> Doc("num", {}, {}, {}) @@
    \* recipes (web search and plain generator)
    "r_full" :> RecipeDoc(Range(RecipeRequired), {"rice"}) @@
    "r_four" :> RecipeDoc(Range(WebRequired), {"rice"}) @@
    "r_notags_noservings" :> RecipeDoc(Range(RecipeRequired) \ {"tags", "servings"}, {"rice"}) @@
    "r_nosteps_notime" :> RecipeDoc(Range(RecipeRequired) \ {"steps", "cookTimeMins"}, {"rice"}) @@
    "r_peanut" :> RecipeDoc(Range(RecipeRequired), {"rice", "Peanuts"}) @@
    "r_groundnut" :> RecipeDoc(Range(RecipeRequired), {"groundnuts"}) @@
    "r_list" :> Doc("list", {}, {}, {}) @@
    "r_num" :> Doc("num", {}, {}, {}) @@
    \* weekly plans
    "p_ok" :> PlanDoc({"planId", "days"}, "dict", AllDays("r1")) @@
    "p_nomon_nofri" :> PlanDoc({"planId", "days"}, "dict", [d \in DaySet \ {"monday", "friday"} |-> "r1"]) @@
    "p_nofri" :> PlanDoc({"planId", "days"}, "dict", [d \in DaySet \ {"friday"} |-> "r2"]) @@
    "p_badid" :> PlanDoc({"planId", "days"}, "dict", [AllDays("r1") EXCEPT !["tuesday"] = "r9"]) @@
    "p_monday_r2" :> PlanDoc({"planId", "days"}, "dict", [AllDays("r1") EXCEPT !["monday"] = "r2"]) @@
    "p_extra" :> PlanDoc({"planId", "days"}, "dict", WithExtra(AllDays("r1"), "r1")) @@
    "p_extra_first_badid" :>
        [PlanDoc({"planId", "days"}, "dict", WithExtra([AllDays("r1") EXCEPT !["tuesday"] = "r9"], "r9"))
            EXCEPT !.order = <<ExtraDay>> \o RequiredDays] @@
    "p_extra_badid" :> PlanDoc({"planId", "days"}, "dict", WithExtra(AllDays("r1"), "r9")) @@
    "p_nodays" :> PlanDoc({"planId"}, "none", NoDays) @@
    "p_nothing" :> PlanDoc({}, "none", NoDays) @@
    "p_dayslist" :> [Doc("obj", {"planId", "days"}, {"days"}, {}) EXCEPT !.daysKind = "list"] @@
    \* days is a list of the seven weekday names: the domain stands for its elements
    "p_dayslist_full" :> [Doc("obj", {"planId", "days"}, {"days"}, {}) EXCEPT
                             !.daysKind = "list", !.days = AllDays("r1")] @@
    \* days is a number
    "p_daysnum" :> Doc("obj", {"planId", "days"}, {}, {}) @@
    "p_num" :> Doc("num", {}, {}, {}) @@
    \* compacted feedback
    "f_ok" :> Doc("obj", {"likes", "dislikes", "weekdayPreferences"}, {"likes", "dislikes"}, {"weekdayPreferences"}) @@
    "f_empty" :> Doc("obj", {}, {}, {}) @@
    "f_likes_str" :> Doc("obj", {"likes", "dislikes"}, {"dislikes"}, {}) @@
    "f_two_bad" :> Doc("obj", {"likes", "dislikes"}, {}, {}) @@
    "f_prefs_list" :> Doc("obj", {"weekdayPreferences"}, {"weekdayPreferences"}, {}) @@
    "f_num" :> Doc("num", {}, {}, {}) @@
    \* shopping lists
    "s_list" :> ShopDoc(<<Entry("rice", 1, "cup")>>) @@
    "s_merged" :> ShopDoc(<<Entry("chickpeas", 3, "can")>>) @@
    "s_unmerged" :> ShopDoc(<<Entry("chickpeas", 2, "can"), Entry("garbanzo beans", 1, "can")>>) @@
    "s_obj" :> Doc("obj", {"items"}, {"items"}, {})

DocNames == DOMAIN DocOf

DocNamesFor(u) ==
    CASE u = "diet" -> {"d_full", "d_nometrics", "d_empty", "d_forged", "d_list", "d_str", "d_num"}
      [] u = "waste" -> {"w_full", "w_partial", "w_num"}
      [] u \in {"web", "recipe"} -> {"r_full", "r_four", "r_notags_noservings", "r_nosteps_notime",
                                     "r_peanut", "r_groundnut", "r_list", "r_num"}
      [] u = "plan" -> {"p_ok", "p_nomon_nofri", "p_nofri", "p_badid", "p_nodays", "p_nothing",
                        "p_dayslist", "p_num", "p_monday_r2", "p_extra", "p_extra_first_badid",
                        "p_dayslist_full", "p_daysnum", "p_extra_badid"}
      [] u = "feedback" -> {"f_ok", "f_empty", "f_likes_str", "f_two_bad", "f_prefs_list", "f_num"}
      [] u = "shop" -> {"s_list", "s_merged", "s_unmerged", "s_obj"}

(***************************************************************************)
(* Backend text: a sequence of lines.  A line is a fence marker, a blank   *)
(* line, the word json, prose, or the name of a JSON document.             *)
(***************************************************************************)
\* the three-backquote marker line, bare and with a language tag
Fence == "<fence>"
FenceJson == "<fence>json"

Wrap(n) == {<<n>>, <<FenceJson, n, Fence>>, <<Fence, n>>, <<"", n, "">>, <<Fence, "json", n, Fence>>,
            <<FenceJson, n, "prose">>}

TextsFor(u) == UNION {Wrap(n) : n \in DocNamesFor(u)} \cup {<<"prose">>, <<>>}

(***************************************************************************)
(* The sanitizers.  str.strip() removes the blank lines around the text.   *)
(***************************************************************************)
RECURSIVE LStrip(_)
LStrip(t) == IF t # <<>> /\ Head(t) = "" THEN LStrip(Tail(t)) ELSE t

RECURSIVE RStrip(_)
RStrip(t) == IF t # <<>> /\ t[Len(t)] = "" THEN RStrip(SubSeq(t, 1, Len(t) - 1)) ELSE t

Strip(t) == RStrip(LStrip(t))

\* text.startswith(fence marker): the first line begins with the marker
StartsWithFence(t) == t # <<>> /\ t[1] \in {Fence, FenceJson}

\* the handlers' sanitizer: drop the first line, then the last one if it is a bare marker
SanitizeHandler(r) ==
    LET t == Strip(r)
        rest == Tail(t)
    IN  IF StartsWithFence(t)
        THEN IF rest # <<>> /\ rest[Len(rest)] = Fence
             THEN SubSeq(rest, 1, Len(rest) - 1)
             ELSE rest
        ELSE t

\* the validators' sanitizer: lines[1:-1] when there are more than two lines, then a
\* leading word json is cut off and the text stripped again
SanitizeValidator(r) ==
    LET t == Strip(r)
        inner == IF Len(t) > 2 THEN SubSeq(t, 2, Len(t) - 1) ELSE t
    IN  IF StartsWithFence(t)
        THEN IF inner # <<>> /\ inner[1] = "json" THEN Strip(Tail(inner)) ELSE inner
        ELSE t

\* normalize_shopping_list hands the backend text to json.loads as it is
SanitizeFor(u, r) ==
    CASE u \in {"diet", "waste", "web"} -> SanitizeHandler(r)
      [] u \in Validators -> SanitizeValidator(r)
      [] u = "shop" -> r

\* json.loads: whitespace around one document is accepted, anything else is a
\* JSONDecodeError
NonBlank(t) == SelectSeq(t, LAMBDA l : l # "")
Parses(t) == Len(NonBlank(t)) = 1 /\ NonBlank(t)[1] \in DocNames
Parsed(t) == DocOf[NonBlank(t)[1]]

\* Python's (name in value): TypeError on a number or null
CanContain(kind) == kind \in {"obj", "dict", "list", "str"}

(***************************************************************************)
(* Requests: the text on stdin (empty, not JSON, or a JSON value) and, for *)
(* a JSON value, its type and the fields the handlers read.                *)
(***************************************************************************)
Meals == {[isDict |-> TRUE, rid |-> "r1"], [isDict |-> TRUE, rid |-> "r2"], [isDict |-> FALSE, rid |-> "none"]}
Weeks == {[isDict |-> TRUE, recipes |-> {"r1"}], [isDict |-> TRUE, recipes |-> {}], [isDict |-> FALSE, recipes |-> {}]}

SeqsUpTo(S, n) == UNION {[1..k -> S] : k \in 0..n}

BaseReq ==
    [raw |-> "json", kind |-> "dict", has |-> {},
     wp |-> "absent", meals |-> <<>>, hist |-> "absent", weeks |-> <<>>,
     profile |-> "absent", intol |-> {}, recipes |-> "absent",
     diet |-> "absent", avoid |-> {}, maxCookMins |-> "absent", servings |-> "absent",
     pool |-> <<>>, prefs |-> <<>>, items |-> <<>>,
     mainIngredients |-> 0, cuisines |-> 0, dayTags |-> <<>>]

RawReqs == {[BaseReq EXCEPT !.raw = "empty", !.kind = "none"],
            [BaseReq EXCEPT !.raw = "notjson", !.kind = "none"]}

NonDictReqs(field) ==
    {[BaseReq EXCEPT !.kind = k, !.has = h] : k \in {"list", "str"}, h \in {{}, {field}}}
    \cup {[BaseReq EXCEPT !.kind = "num"]}

Profiles == {[profile |-> "absent", intol |-> {}], [profile |-> "dict", intol |-> {"peanuts"}],
             [profile |-> "other", intol |-> {}]}

\* the numbers of distinct main ingredients and of distinct cuisines of the
\* request's weekly plan
VarietyCounts == {<<7, 3>>, <<6, 2>>, <<4, 1>>, <<7, 2>>}

\* the tags of the recipes of one day's meals
DayTagLists ==
    {<<{"balanced"}, {"balanced"}>>,
     <<{"protein-rich"}, {"rice"}>>,
     <<{"protein-rich", "pasta"}>>,
     <<{}, {"avocado"}>>}

DietReqs ==
    RawReqs \cup NonDictReqs("weeklyPlan") \cup {BaseReq}
    \cup {[BaseReq EXCEPT !.wp = w] : w \in {"emptydict", "num"}}
    \cup {[BaseReq EXCEPT !.wp = "list", !.meals = m, !.profile = p.profile, !.intol = p.intol] :
             m \in SeqsUpTo(Meals, MaxPlan), p \in Profiles}
    \cup {[BaseReq EXCEPT !.wp = "list", !.meals = m, !.hist = "list", !.weeks = w] :
             m \in SeqsUpTo(Meals, MaxPlan), w \in SeqsUpTo(Weeks, MaxHist)}
    \cup {[BaseReq EXCEPT !.wp = "list", !.hist = "num"]}
    \cup {[BaseReq EXCEPT !.wp = "list", !.mainIngredients = c[1], !.cuisines = c[2]] : c \in VarietyCounts}
    \cup {[BaseReq EXCEPT !.wp = "list", !.dayTags = t,
                          !.meals = [i \in 1..Len(t) |-> [isDict |-> TRUE, rid |-> "r1"]]] :
             t \in DayTagLists}

WasteReqs ==
    RawReqs \cup NonDictReqs("recipes")
    \cup {[BaseReq EXCEPT !.recipes = r, !.profile = p.profile, !.intol = p.intol] :
             r \in {"absent", "emptylist", "list", "str"}, p \in Profiles}

WebReqs ==
    RawReqs \cup NonDictReqs("diet")
    \cup {[BaseReq EXCEPT !.diet = d, !.avoid = a] :
             d \in {"absent", "str", "other"}, a \in {{}, {"peanuts"}}}
    \* maxCookMins and servings: absent, a number, or a value of another type
    \cup {[BaseReq EXCEPT !.diet = "str", !.maxCookMins = m, !.servings = v] :
             m \in {"absent", "num", "dict"}, v \in {"absent", "num", "list"}}

\* validate_plan's arguments beside the plan text: the recipe pool (cookTimeMins, when
\* the recipe has it, and cook_time_minutes, 0 when it has none) and the weekday
\* preferences (maxCookMins, when the day's entry has it)
PoolRecipe(id, has, cook, alt) == [id |-> id, has |-> has, cook |-> cook, alt |-> alt]

\* the id of a pool recipe that has no "id" key
NoId == "<no id>"

Pools ==
    {<<PoolRecipe("r1", TRUE, 20, 0), PoolRecipe("r2", TRUE, 40, 0)>>,
     <<PoolRecipe("r1", TRUE, 31, 0)>>,
     <<PoolRecipe("r1", FALSE, 0, 0), PoolRecipe("r2", TRUE, 30, 0)>>,
     <<PoolRecipe("r1", FALSE, 0, 50), PoolRecipe("r2", TRUE, 16, 0)>>,
     <<PoolRecipe("r1", TRUE, 20, 0), PoolRecipe(NoId, TRUE, 20, 0)>>,
     \* cookTimeMins is 0 and the recipe still has the older cook_time_minutes
     <<PoolRecipe("r1", TRUE, 0, 50)>>}

DayPref(has, max) == [has |-> has, max |-> max]

PrefSets ==
    {<<>>,
     ("monday" :> DayPref(TRUE, 15)) @@ ("tuesday" :> DayPref(TRUE, 45)),
     ("monday" :> DayPref(FALSE, 0)) @@ (ExtraDay :> DayPref(TRUE, 15))}

PlanReqs == {[BaseReq EXCEPT !.pool = p, !.prefs = w] : p \in Pools, w \in PrefSets}

\* the ingredient lists on the shopping normalizer's stdin
ShopItemLists ==
    {<<>>,
     <<Entry("chickpeas", 2, "can"), Entry("garbanzo beans", 1, "can")>>,
     <<Entry("garbanzo beans", 1, "can"), Entry("chickpeas", 2, "can")>>,
     <<Entry("chickpeas", 3, "can")>>,
     <<Entry("chickpeas", 3, "can"), Entry("rice", 1, "cup")>>}

ShopReqs ==
    RawReqs \cup {[BaseReq EXCEPT !.kind = k] : k \in {"dict", "num"}}
    \cup {[BaseReq EXCEPT !.kind = "list", !.items = i] : i \in ShopItemLists}

RequestsFor(u) ==
    CASE u = "diet" -> DietReqs
      [] u = "waste" -> WasteReqs
      [] u = "web" -> WebReqs
      [] u = "shop" -> ShopReqs
      [] u = "plan" -> PlanReqs
      [] u \in Validators -> {BaseReq}

(***************************************************************************)
(* Results.  error is the reason recorded in the result's error field      *)
(* ("none" when the result has no such field).  val tells, for every key   *)
(* of the result, where its value comes from: "backend" (the value the     *)
(* parsed response holds), "request" (a value of the request handed        *)
(* through), "emptylist", "emptydict", "computed" or "literal".            *)
(***************************************************************************)
NoVals == [k \in {} |-> "none"]

NoResult ==
    [kind |-> "none", keys |-> {}, lists |-> {}, dicts |-> {}, ings |-> {}, days |-> NoDays,
     flag |-> FALSE, error |-> "none", planFrom |-> "none", plan |-> <<>>, repl |-> <<>>,
     val |-> NoVals, warn |-> <<>>, items |-> <<>>, variety |-> "none", macros |-> <<>>,
     replacementsCount |-> 0, repeatedRecipes |-> 0]

\* a parsed backend document returned as the result
FromDoc(d) ==
    [NoResult EXCEPT !.kind = d.kind, !.keys = d.keys, !.lists = d.lists, !.dicts = d.dicts,
                     !.ings = d.ings, !.days = d.days, !.flag = d.flag,
                     !.error = IF "error" \in d.keys THEN "backend" ELSE "none",
                     !.val = [k \in d.keys |-> "backend"], !.items = d.items,
                     !.variety = d.variety, !.macros = d.macros]

\* where a step of the run leaves it: the next position, the result, the exception
\* that left the pipeline function, the reason of the failure and the names it reports
Outcome(p, res, e, w, n) == [pc |-> p, result |-> res, exc |-> e, why |-> w, named |-> n]

Missing(required, d) == SelectSeq(required, LAMBDA k : k \notin d.keys)

(***************************************************************************)
(* balanced_diet_agent.py                                                  *)
(***************************************************************************)
HistoryWindow == 4

\* mutant: the loop runs over the whole history
LastWeeksAll(weeks) == weeks

\* history[-4:]
LastWeeks(weeks) ==
    IF Len(weeks) > HistoryWindow THEN SubSeq(weeks, Len(weeks) - HistoryWindow + 1, Len(weeks)) ELSE weeks

RecentIds(r) == UNION {w.recipes : w \in Range(LastWeeks(r.weeks))}

Replacement(m) ==
    [originalRecipeId |-> m.rid, newRecipeId |-> "replacement_needed",
     reason |-> "Recipe used in past 4 weeks"]

Replacements(r) ==
    LET flagged == SelectSeq(r.meals, LAMBDA m : m.rid \in RecentIds(r))
    IN  [i \in 1..Len(flagged) |-> Replacement(flagged[i])]

\* the type of the weeklyPlan value the request carries
PlanLists(r) == IF r.wp \in {"list", "absent"} THEN {"updatedWeeklyPlan"} ELSE {}
PlanDicts(r) == IF r.wp = "emptydict" THEN {"updatedWeeklyPlan"} ELSE {}

\* create_fallback_response: input_data.get, history[-4:], week.get, the loop over
\* weekly_plan and meal.get raise on values of the wrong type
FallbackResponseRaises(r) ==
    CASE r.kind # "dict" -> "AttributeError"
      [] r.kind = "dict" /\ r.hist = "num" -> "TypeError"
      [] r.kind = "dict" /\ r.hist = "list" /\ \E w \in Range(LastWeeks(r.weeks)) : ~w.isDict -> "AttributeError"
      [] r.kind = "dict" /\ r.hist # "num" /\ (\A w \in Range(LastWeeks(r.weeks)) : w.isDict)
         /\ r.wp = "num" -> "TypeError"
      [] r.kind = "dict" /\ r.hist # "num" /\ (\A w \in Range(LastWeeks(r.weeks)) : w.isDict)
         /\ r.wp # "num" /\ \E m \in Range(r.meals) : ~m.isDict -> "AttributeError"
      [] OTHER -> "none"

\* proteinRatio, carbsRatio, fatRatio of the fallback's metrics, in thousandths
FallbackMacros == <<250, 500, 250>>

\* mutant: the count is the length of the plan
ReplacementsCountPlan(r) == Len(r.meals)

\* len(replacements)
ReplacementsCount(r) == Len(Replacements(r))

FallbackResponseValue(r, err) ==
    [NoResult EXCEPT
        !.kind = "obj",
        !.keys = Range(DietKeys) \cup {"recommendations", "error", "fallbackUsed"},
        !.lists = {"replacements", "recommendations"} \cup PlanLists(r),
        !.dicts = {"metrics"} \cup PlanDicts(r),
        !.flag = TRUE, !.error = err,
        !.planFrom = "request", !.plan = r.meals, !.repl = Replacements(r),
        !.variety = "unknown",
        !.macros = FallbackMacros,
        !.replacementsCount = ReplacementsCount(r),
        !.repeatedRecipes = ReplacementsCount(r),
        !.val = [k \in Range(DietKeys) \cup {"recommendations", "error", "fallbackUsed"} |->
                    CASE k = "updatedWeeklyPlan" -> "request"
                      [] k \in {"replacements", "recommendations", "error"} -> "computed"
                      [] OTHER -> "literal"]]

create_fallback_response(r, err) ==
    IF FallbackResponseRaises(r) # "none"
    THEN Outcome("Crashed", NoResult, FallbackResponseRaises(r), err, {})
    ELSE Outcome("Fallback", FallbackResponseValue(r, err), "none", err, {})

\* analyze_diet_balance up to the backend call: user_profile.get and the joins
DietPromptRaises(r) ==
    IF r.kind # "dict" \/ r.profile = "other" THEN "AttributeError" ELSE "none"

\* the value analyze_diet_balance stores under a key the response leaves out
DietDefault(k) ==
    CASE k = "updatedWeeklyPlan" -> "request"
      [] k = "replacements" -> "emptylist"
      [] OTHER -> "emptydict"

\* mutant: every key left out is filled with an empty list, as the waste handler does
DietFillAllLists(r, d) ==
    LET miss == Range(Missing(DietKeys, d))
    IN  [FromDoc(d) EXCEPT
            !.keys = d.keys \cup miss,
            !.lists = d.lists \cup miss,
            !.planFrom = IF "updatedWeeklyPlan" \in miss THEN "none" ELSE "backend",
            !.val = [k \in d.keys \cup miss |-> IF k \in d.keys THEN "backend" ELSE "emptylist"]]

\* analyze_diet_balance after json.loads: the defaults for the keys left out
DietFill(r, d) ==
    LET miss == Range(Missing(DietKeys, d))
    IN  [FromDoc(d) EXCEPT
            !.keys = d.keys \cup miss,
            !.lists = d.lists \cup (miss \cap {"replacements"})
                      \cup (IF "updatedWeeklyPlan" \in miss THEN PlanLists(r) ELSE {}),
            !.dicts = d.dicts \cup (miss \cap {"metrics"})
                      \cup (IF "updatedWeeklyPlan" \in miss THEN PlanDicts(r) ELSE {}),
            !.planFrom = IF "updatedWeeklyPlan" \in miss THEN "request" ELSE "backend",
            !.plan = IF "updatedWeeklyPlan" \in miss THEN r.meals ELSE <<>>,
            !.val = [k \in d.keys \cup miss |-> IF k \in d.keys THEN "backend" ELSE DietDefault(k)]]

DietValidate(r, d) ==
    CASE d.kind = "obj" -> Outcome("Finalized", DietFill(r, d), "none", "none", {})
      [] d.kind \in {"list", "str"} /\ Missing(DietKeys, d) = <<>> ->
            Outcome("Finalized", [FromDoc(d) EXCEPT !.planFrom = "backend"], "none", "none", {})
      [] OTHER -> create_fallback_response(r, "TypeError")

(***************************************************************************)
(* waste_reduction_agent.py                                                *)
(***************************************************************************)
\* analyze_waste_reduction up to the backend call: input_data.get and user_profile.get
WastePromptRaises(r) ==
    IF r.kind # "dict" \/ r.profile = "other" THEN "AttributeError" ELSE "none"

\* the two except branches of analyze_waste_reduction build the same structure
WasteFallbackValue(r, err) ==
    [NoResult EXCEPT
        !.kind = "obj",
        !.keys = Range(WasteKeys) \cup {"wasteReductionTips", "estimatedWasteReduction", "error"},
        !.lists = {"shoppingList", "substitutionSuggestions", "wasteReductionTips"}
                  \cup (IF r.recipes \in {"list", "emptylist", "absent"} THEN {"optimizedRecipes"} ELSE {}),
        !.error = err,
        !.val = [k \in Range(WasteKeys) \cup {"wasteReductionTips", "estimatedWasteReduction", "error"} |->
                    CASE k = "optimizedRecipes" -> "request"
                      [] k \in {"shoppingList", "substitutionSuggestions"} -> "emptylist"
                      [] k = "error" -> "computed"
                      [] OTHER -> "literal"]]

\* input_data.get('recipes', []) in the except branch raises on a request that is no
\* object, and nothing catches it
WasteFallback(r, err) ==
    IF r.kind # "dict"
    THEN Outcome("Crashed", NoResult, "AttributeError", err, {})
    ELSE Outcome("Fallback", WasteFallbackValue(r, err), "none", err, {})

WasteFill(d) ==
    LET miss == Range(Missing(WasteKeys, d))
    IN  [FromDoc(d) EXCEPT
            !.keys = d.keys \cup miss, !.lists = d.lists \cup miss,
            !.val = [k \in d.keys \cup miss |-> IF k \in d.keys THEN "backend" ELSE "emptylist"]]

WasteValidate(r, d) ==
    CASE d.kind = "obj" -> Outcome("Finalized", WasteFill(d), "none", "none", {})
      [] d.kind \in {"list", "str"} /\ Missing(WasteKeys, d) = <<>> ->
            Outcome("Finalized", FromDoc(d), "none", "none", {})
      [] OTHER -> WasteFallback(r, "TypeError")

(***************************************************************************)
(* recipe_generator_with_search.py                                         *)
(***************************************************************************)
WebPromptRaises(r) == IF r.kind # "dict" THEN "AttributeError" ELSE "none"

\* create_fallback_recipe: input_data.get and diet.title() raise on the wrong types
FallbackRecipeRaises(r) ==
    IF r.kind # "dict" \/ r.diet = "other" THEN "AttributeError" ELSE "none"

FallbackRecipeValue(r, err) ==
    [NoResult EXCEPT
        !.kind = "obj",
        !.keys = Range(RecipeRequired) \cup {"source", "foundOnWeb", "error", "fallbackUsed"},
        !.lists = {"ingredients", "steps", "tags"}
                  \cup (IF r.servings = "list" THEN {"servings"} ELSE {}),
        !.dicts = IF r.maxCookMins = "dict" THEN {"cookTimeMins"} ELSE {},
        !.ings = {"main ingredient", "seasoning"},
        !.flag = TRUE, !.error = err,
        !.val = [k \in Range(RecipeRequired) \cup {"source", "foundOnWeb", "error", "fallbackUsed"} |->
                    CASE k \in {"title", "tags", "error"} -> "computed"
                      \* input_data.get('maxCookMins', 30), input_data.get('servings', 2)
                      [] k = "cookTimeMins" -> IF r.maxCookMins = "absent" THEN "literal" ELSE "request"
                      [] k = "servings" -> IF r.servings = "absent" THEN "literal" ELSE "request"
                      \* the second step holds max_cook_mins
                      [] k = "steps" -> IF r.maxCookMins = "absent" THEN "literal" ELSE "computed"
                      [] OTHER -> "literal"]]

create_fallback_recipe(r, err, n) ==
    IF FallbackRecipeRaises(r) # "none"
    THEN Outcome("Crashed", NoResult, FallbackRecipeRaises(r), err, n)
    ELSE Outcome("Fallback", FallbackRecipeValue(r, err), "none", err, n)

\* mutant: the loop collects every field left out before raising
AllMissing(required, d) == Range(Missing(required, d))

\* the field the ValueError names: the loop raises at the first one left out
FirstMissing(required, d) ==
    IF Missing(required, d) = <<>> THEN {} ELSE {Head(Missing(required, d))}

WebValidate(r, d) ==
    CASE d.kind = "num" -> create_fallback_recipe(r, "TypeError", {})
      [] d.kind # "num" /\ Missing(WebRequired, d) # <<>> ->
            create_fallback_recipe(r, "ValueError", FirstMissing(WebRequired, d))
      [] d.kind \in {"list", "str"} /\ Missing(WebRequired, d) = <<>> ->
            create_fallback_recipe(r, "TypeError", {})
      [] OTHER ->
            Outcome("Finalized",
                    [FromDoc(d) EXCEPT
                        !.keys = d.keys \cup {"generatedFrom", "searchEnabled"},
                        !.val = [k \in d.keys \cup {"generatedFrom", "searchEnabled"} |->
                                    IF k \in {"generatedFrom", "searchEnabled"} THEN "literal" ELSE "backend"]],
                    "none", "none", {})

(***************************************************************************)
(* shopping_normalizer.py                                                  *)
(***************************************************************************)
EmptyList == [NoResult EXCEPT !.kind = "list"]

(***************************************************************************)
(* meal_planner.py, recipe_generator.py, feedback_compactor.py: the        *)
(* validators return the parsed value or raise.                            *)
(***************************************************************************)
Raise(e, w, n) == Outcome(IF e = "ValueError" THEN "Raised" ELSE "Crashed", NoResult, e, w, n)

MissingDays(d) == SelectSeq(RequiredDays, LAMBDA x : x \notin DOMAIN d.days)

\* r["id"] raises on a recipe of the pool that has no id
LacksId(r) == \E i \in 1..Len(r.pool) : r.pool[i].id = NoId

\* recipe_ids = {r["id"] for r in recipes}
PoolIds(r) == {r.pool[i].id : i \in 1..Len(r.pool)}

\* mutant: only the seven weekdays are looked at
UnknownIdsWeekdaysOnly(r, d) == SelectSeq(RequiredDays, LAMBDA x : d.days[x] \notin PoolIds(r))

\* for day, recipe_id in days.items(): every key of the days object, in its order
UnknownIds(r, d) == SelectSeq(d.order, LAMBDA x : d.days[x] \notin PoolIds(r))

\* recipe_map = {r["id"]: r for r in recipes}: the last recipe of an id stays
RecipeMap(r) ==
    [id \in PoolIds(r) |->
        r.pool[CHOOSE i \in 1..Len(r.pool) :
                  r.pool[i].id = id /\ \A j \in (i + 1)..Len(r.pool) : r.pool[j].id # id]]

\* recipe.get("cookTimeMins") or recipe.get("cook_time_minutes", 0)
CookTime(rec) == IF rec.has /\ rec.cook # 0 THEN rec.cook ELSE rec.alt

DefaultMaxCook == 30

\* weekday_prefs.get(day, {}).get("maxCookMins", 30)
MaxCookFor(r, day) ==
    IF day \in DOMAIN r.prefs /\ r.prefs[day].has THEN r.prefs[day].max ELSE DefaultMaxCook

\* the days for which the warning line is printed, in the order of the loop
Warnings(r, d) ==
    SelectSeq(d.order, LAMBDA x : CookTime(RecipeMap(r)[d.days[x]]) > MaxCookFor(r, x))

validate_plan(r, d) ==
    CASE ~CanContain(d.kind) -> Raise("TypeError", "type", {})
      [] CanContain(d.kind) /\ ~({"planId", "days"} \subseteq d.keys) ->
            Raise("ValueError", "missing", {"planId", "days"})
      [] d.kind \in {"list", "str"} /\ {"planId", "days"} \subseteq d.keys -> Raise("TypeError", "type", {})
      [] d.kind = "obj" /\ {"planId", "days"} \subseteq d.keys /\ d.daysKind = "none" ->
            Raise("TypeError", "type", {})
      [] d.kind = "obj" /\ {"planId", "days"} \subseteq d.keys /\ d.daysKind \in {"dict", "list"}
         /\ MissingDays(d) # <<>> -> Raise("ValueError", "missing", {Head(MissingDays(d))})
      [] d.kind = "obj" /\ {"planId", "days"} \subseteq d.keys /\ d.daysKind \in {"dict", "list"}
         /\ MissingDays(d) = <<>> /\ LacksId(r) -> Raise("KeyError", "type", {})
      [] d.kind = "obj" /\ {"planId", "days"} \subseteq d.keys /\ d.daysKind = "list"
         /\ MissingDays(d) = <<>> /\ ~LacksId(r) -> Raise("AttributeError", "type", {})
      [] d.kind = "obj" /\ {"planId", "days"} \subseteq d.keys /\ d.daysKind = "dict"
         /\ MissingDays(d) = <<>> /\ ~LacksId(r) /\ UnknownIds(r, d) # <<>> ->
            Raise("ValueError", "invalid_id", {Head(UnknownIds(r, d))})
      [] d.kind = "obj" /\ {"planId", "days"} \subseteq d.keys /\ d.daysKind = "dict"
         /\ MissingDays(d) = <<>> /\ ~LacksId(r) /\ UnknownIds(r, d) = <<>>
         /\ (\E x \in DOMAIN d.days : d.days[x] \notin DOMAIN RecipeMap(r)) ->
            \* recipe_map[recipe_id]
            Raise("KeyError", "type", {})
      [] OTHER -> Outcome("Finalized", [FromDoc(d) EXCEPT !.warn = Warnings(r, d)], "none", "none", {})

validate_and_parse_recipe(d) ==
    CASE ~CanContain(d.kind) -> Raise("TypeError", "type", {})
      [] CanContain(d.kind) /\ Missing(RecipeRequired, d) # <<>> ->
            Raise("ValueError", "missing", FirstMissing(RecipeRequired, d))
      [] OTHER -> Outcome("Finalized", FromDoc(d), "none", "none", {})

\* the first of likes, dislikes, intolerances that is present and not a list, else
\* weekdayPreferences when present and not an object
Mistyped(d) ==
    SelectSeq(FeedbackLists, LAMBDA k : k \in d.keys /\ k \notin d.lists)
    \o (IF "weekdayPreferences" \in d.keys /\ "weekdayPreferences" \notin d.dicts
        THEN <<"weekdayPreferences">> ELSE <<>>)

validate_and_parse_feedback(d) ==
    CASE ~CanContain(d.kind) -> Raise("TypeError", "type", {})
      [] d.kind \in {"list", "str"} /\ d.keys \cap (Range(FeedbackLists) \cup {"weekdayPreferences"}) # {} ->
            Raise("TypeError", "type", {})
      [] d.kind = "obj" /\ Mistyped(d) # <<>> -> Raise("ValueError", "mistyped", {Head(Mistyped(d))})
      [] OTHER -> Outcome("Finalized", FromDoc(d), "none", "none", {})

(***************************************************************************)
(* The steps of a run.                                                     *)
(***************************************************************************)
\* the module-level model object, made once when the module is loaded
ModelName == "gemini-2.0-flash-exp"

\* cap of the backend-call counter
MaxCalls == 3

Terminal == {"Finalized", "Fallback", "InputError", "Crashed", "Raised"}

ErrorClass(o) == IF o = "transient" THEN "TransientError" ELSE "PermanentError"

\* the except branches of the three handlers that synthesize a fallback
SynthesizeFallback(u, r, err, n) ==
    CASE u = "diet" -> create_fallback_response(r, err)
      [] u = "waste" -> WasteFallback(r, err)
      [] u = "web" -> create_fallback_recipe(r, err, n)

\* mutant: main() without the check of the mandatory field
InputCheckLax(u, r) ==
    CASE r.raw # "json" -> "reject"
      [] r.raw = "json" /\ u \in {"diet", "waste"} /\ ~CanContain(r.kind) -> "raise"
      [] OTHER -> "accept"

\* main(): what the checks before the pipeline call do with the request.
\* "reject": the error document is printed and the run exits with status 1;
\* "raise": an exception reaches main's except branch, which exits with status 1.
InputCheck(u, r) ==
    CASE r.raw # "json" /\ u = "shop" -> "raise"
      [] r.raw # "json" /\ u # "shop" -> "reject"
      [] r.raw = "json" /\ u = "diet" ->
            (CASE ~CanContain(r.kind) -> "raise"
               [] r.kind = "dict" -> IF r.wp = "absent" THEN "reject" ELSE "accept"
               [] OTHER -> IF "weeklyPlan" \in r.has THEN "accept" ELSE "reject")
      [] r.raw = "json" /\ u = "waste" ->
            (CASE ~CanContain(r.kind) -> "raise"
               [] r.kind = "dict" -> IF r.recipes \in {"absent", "emptylist"} THEN "reject" ELSE "accept"
               [] OTHER -> IF "recipes" \in r.has THEN "raise" ELSE "reject")
      [] OTHER -> "accept"

\* the exception that reaches main's except branch: json.loads of the shopping
\* list's stdin, or the test of the mandatory field on a value of the wrong type
InputCheckRaises(u, r) == IF u = "shop" /\ r.raw # "json" THEN "JSONDecodeError" ELSE "TypeError"

ValidateInput ==
    /\ pc = "Start"
    /\ pc' = CASE InputCheck(uc, req) = "accept" -> "Accepted"
               [] InputCheck(uc, req) = "reject" -> "InputError"
               [] OTHER -> "Crashed"
    /\ exc' = IF InputCheck(uc, req) = "raise" THEN InputCheckRaises(uc, req) ELSE "none"
    /\ status' = IF InputCheck(uc, req) = "accept" THEN -1 ELSE 1
    /\ out' = IF InputCheck(uc, req) = "reject" THEN "error" ELSE "none"
    /\ UNCHANGED <<uc, req, calls, gw, raw, text, result, why, named, pvars>>

Apply(o) ==
    /\ pc' = o.pc
    /\ result' = o.result
    /\ exc' = o.exc
    /\ why' = o.why
    /\ named' = o.named

\* the code of the pipeline function before the backend call
PromptRaises(u, r) ==
    CASE u = "diet" -> DietPromptRaises(r)
      [] u = "waste" -> WastePromptRaises(r)
      [] u = "web" -> WebPromptRaises(r)
      [] OTHER -> "none"

BuildPrompt ==
    /\ pc = "Accepted"
    /\ IF PromptRaises(uc, req) = "none"
       THEN Apply(Outcome("Built", result, exc, why, named))
       ELSE Apply(SynthesizeFallback(uc, req, PromptRaises(uc, req), {}))
    /\ UNCHANGED <<uc, req, calls, gw, raw, text, status, out, pvars>>

\* an exception of the backend call: caught by the handlers' except Exception,
\* not caught in normalize_shopping_list nor in the generate functions
OnGatewayError(u, r, o) ==
    IF u \in {"diet", "waste", "web"}
    THEN SynthesizeFallback(u, r, ErrorClass(o), {})
    ELSE Outcome("Crashed", NoResult, ErrorClass(o), ErrorClass(o), {})

Invoke ==
    /\ pc = "Built"
    /\ calls < MaxCalls
    /\ calls' = calls + 1
    /\ \/ \E o \in {"transient", "permanent"} :
            /\ gw' = o
            /\ Apply(OnGatewayError(uc, req, o))
            /\ UNCHANGED raw
       \/ \E t \in TextsFor(uc) :
            /\ gw' = "response"
            /\ raw' = t
            /\ Apply(Outcome("Invoked", result, exc, why, named))
    /\ UNCHANGED <<uc, req, text, status, out, pvars>>

Sanitize ==
    /\ pc = "Invoked"
    /\ text' = SanitizeFor(uc, raw)
    /\ pc' = "Sanitized"
    /\ UNCHANGED <<uc, req, calls, gw, raw, result, exc, why, named, status, out, pvars>>

\* json.loads raised JSONDecodeError
OnParseFailure(u, r) ==
    CASE u \in {"diet", "waste", "web"} -> SynthesizeFallback(u, r, "JSONDecodeError", {})
      [] u = "shop" -> Outcome("Fallback", EmptyList, "none", "JSONDecodeError", {})
      [] OTHER -> Raise("ValueError", "json", {})

\* the code after json.loads
OnParsed(u, r, d) ==
    CASE u = "diet" -> DietValidate(r, d)
      [] u = "waste" -> WasteValidate(r, d)
      [] u = "web" -> WebValidate(r, d)
      [] u = "shop" -> Outcome("Finalized", FromDoc(d), "none", "none", {})
      [] u = "plan" -> validate_plan(r, d)
      [] u = "recipe" -> validate_and_parse_recipe(d)
      [] u = "feedback" -> validate_and_parse_feedback(d)

ParseValidate ==
    /\ pc = "Sanitized"
    /\ IF Parses(text)
       THEN Apply(OnParsed(uc, req, Parsed(text)))
       ELSE Apply(OnParseFailure(uc, req))
    /\ UNCHANGED <<uc, req, calls, gw, raw, text, status, out, pvars>>

\* main() after the pipeline function: print the result, or the except branch
MainOutput ==
    /\ uc \in Handlers
    /\ status = -1
    /\ pc \in {"Finalized", "Fallback", "Crashed"}
    /\ status' = IF pc = "Crashed" THEN 1 ELSE 0
    /\ out' = IF pc = "Crashed" THEN "none" ELSE "result"
    /\ UNCHANGED <<uc, req, pc, calls, gw, raw, text, result, exc, why, named, pvars>>

Init ==
    /\ uc \in UseCases
    /\ req \in RequestsFor(uc)
    /\ pc = IF uc \in Handlers THEN "Start" ELSE "Accepted"
    /\ calls = 0
    /\ gw = "none"
    /\ raw = <<>>
    /\ text = <<>>
    /\ result = NoResult
    /\ exc = "none"
    /\ why = "none"
    /\ named = {}
    /\ status = -1
    /\ out = "none"
    /\ runs = <<>>
    /\ answers = <<>>
    /\ response_text = <<>>
    /\ model = ModelName

Next == ValidateInput \/ BuildPrompt \/ Invoke \/ Sanitize \/ ParseValidate \/ MainOutput

Spec == Init /\ [][Next]_vars

(***************************************************************************)
(* Diet-balance runs on requests with a long history: the same steps, from *)
(* requests whose history has up to MaxWeeks weeks.                        *)
(***************************************************************************)
MaxWeeks == 5

HistoryWeeks == {[isDict |-> TRUE, recipes |-> ids] : ids \in {{"r1"}, {"r2"}, {}}}

HistoryPlans ==
    {<<[isDict |-> TRUE, rid |-> "r1"]>>,
     <<[isDict |-> TRUE, rid |-> "r1"], [isDict |-> TRUE, rid |-> "r2"]>>}

HistoryReqs ==
    {[BaseReq EXCEPT !.wp = "list", !.meals = m, !.hist = "list", !.weeks = w] :
        m \in HistoryPlans, w \in SeqsUpTo(HistoryWeeks, MaxWeeks)}

InitHistory ==
    /\ uc = "diet"
    /\ req \in HistoryReqs
    /\ pc = "Start"
    /\ calls = 0
    /\ gw = "none"
    /\ raw = <<>>
    /\ text = <<>>
    /\ result = NoResult
    /\ exc = "none"
    /\ why = "none"
    /\ named = {}
    /\ status = -1
    /\ out = "none"
    /\ runs = <<>>
    /\ answers = <<>>
    /\ response_text = <<>>
    /\ model = ModelName

SpecHistory == InitHistory /\ [][Next]_vars

(***************************************************************************)
(* Concurrent runs.  Two calls of a pipeline function (analyze_diet_balance,*)
(* analyze_waste_reduction, normalize_shopping_list) run in one process,   *)
(* their steps interleaved in any order.  Every call has its own request,  *)
(* position and results; response_text is a local variable of the call;    *)
(* the model object is the module's and is only read.                      *)
(***************************************************************************)
Runs == {"a", "b"}

ParUseCases == {"diet", "waste", "shop"}

ParReqs(u) ==
    CASE u = "diet" -> {r \in DietReqs : r.raw = "json" /\ r.kind = "dict" /\ r.wp = "list"
                                         /\ Len(r.meals) = 1 /\ r.hist \in {"absent", "list"}
                                         /\ r.profile \in {"absent", "other"}
                                         /\ \A i \in 1..Len(r.weeks) : r.weeks[i].isDict /\ r.weeks[i].recipes # {}}
      [] u = "waste" -> {r \in WasteReqs : r.raw = "json" /\ r.kind = "dict" /\ r.recipes = "list"
                                           /\ r.profile = "absent"}
      [] u = "shop" -> {r \in ShopReqs : r.kind = "list" /\ Len(r.items) = 2}

ParTexts(u) ==
    CASE u = "diet" -> {<<"d_empty">>, <<FenceJson, "d_full", Fence>>, <<"prose">>}
      [] u = "waste" -> {<<"w_partial">>, <<Fence, "w_full">>}
      [] u = "shop" -> {<<"s_merged">>, <<"s_unmerged">>, <<>>}

\* what the backend did with a call: nothing yet, an error, or a text
NoAnswer == [kind |-> "none", err |-> "none", text |-> <<>>, model |-> "none"]

Local(u, r) == [uc |-> u, req |-> r, pc |-> "Accepted", result |-> NoResult, exc |-> "none", text |-> <<>>]

Land(i, o) == [runs EXCEPT ![i].pc = o.pc, ![i].result = o.result, ![i].exc = o.exc]

\* mutant: response_text is one module-level variable that every call assigns
ResponseSlotShared(i) == "a"

\* response_text is assigned inside the function: every call has its own
ResponseSlot(i) == i

ParBuildPrompt(i) ==
    /\ runs[i].pc = "Accepted"
    /\ runs' = IF PromptRaises(runs[i].uc, runs[i].req) = "none"
               THEN [runs EXCEPT ![i].pc = "Built"]
               ELSE Land(i, SynthesizeFallback(runs[i].uc, runs[i].req,
                                               PromptRaises(runs[i].uc, runs[i].req), {}))
    /\ UNCHANGED <<answers, response_text, model, vars>>

ParInvoke(i) ==
    /\ runs[i].pc = "Built"
    /\ \/ \E o \in {"transient", "permanent"} :
            /\ answers' = [answers EXCEPT ![i] = [NoAnswer EXCEPT !.kind = "error", !.err = o, !.model = model]]
            /\ runs' = Land(i, OnGatewayError(runs[i].uc, runs[i].req, o))
            /\ UNCHANGED response_text
       \/ \E t \in ParTexts(runs[i].uc) :
            /\ answers' = [answers EXCEPT ![i] = [NoAnswer EXCEPT !.kind = "text", !.text = t, !.model = model]]
            /\ response_text' = [response_text EXCEPT ![ResponseSlot(i)] = t]
            /\ runs' = [runs EXCEPT ![i].pc = "Invoked"]
    /\ UNCHANGED <<model, vars>>

ParSanitize(i) ==
    /\ runs[i].pc = "Invoked"
    /\ runs' = [runs EXCEPT ![i].pc = "Sanitized",
                            ![i].text = SanitizeFor(runs[i].uc, response_text[ResponseSlot(i)])]
    /\ UNCHANGED <<answers, response_text, model, vars>>

ParParseValidate(i) ==
    /\ runs[i].pc = "Sanitized"
    /\ runs' = IF Parses(runs[i].text)
               THEN Land(i, OnParsed(runs[i].uc, runs[i].req, Parsed(runs[i].text)))
               ELSE Land(i, OnParseFailure(runs[i].uc, runs[i].req))
    /\ UNCHANGED <<answers, response_text, model, vars>>

InitPar ==
    /\ runs \in {f \in [Runs -> UNION {{Local(u, r) : r \in ParReqs(u)} : u \in ParUseCases}] :
                    f["a"].uc \in {"diet", "shop"}}
    /\ answers = [i \in Runs |-> NoAnswer]
    /\ response_text = [i \in Runs |-> <<>>]
    /\ model = ModelName
    /\ uc = "none"
    /\ req = BaseReq
    /\ pc = "none"
    /\ calls = 0
    /\ gw = "none"
    /\ raw = <<>>
    /\ text = <<>>
    /\ result = NoResult
    /\ exc = "none"
    /\ why = "none"
    /\ named = {}
    /\ status = -1
    /\ out = "none"

NextPar == \E i \in Runs : ParBuildPrompt(i) \/ ParInvoke(i) \/ ParSanitize(i) \/ ParParseValidate(i)

SpecPar == InitPar /\ [][NextPar]_<<vars, pvars>>

(***************************************************************************)
(* Vocabulary of the claims.                                               *)
(***************************************************************************)
PipelineHandlers == {"diet", "waste", "web"}

\* the request got past main's checks
PassedValidation == uc \in Handlers /\ InputCheck(uc, req) = "accept"

\* a backend response has been parsed or has failed to parse
Decided == gw = "response" /\ pc \in Terminal

ParseFailed == Decided /\ ~Parses(text)

\* the fields a use case's validator requires of a parsed object
RequiredFields(u) ==
    CASE u = "web" -> WebRequired
      [] u = "recipe" -> RecipeRequired
      [] u = "plan" -> <<"planId", "days">>
      [] OTHER -> <<>>

LacksRequired ==
    /\ Decided
    /\ Parses(text)
    /\ Parsed(text).kind = "obj"
    /\ \/ Missing(RequiredFields(uc), Parsed(text)) # <<>>
       \/ uc = "plan" /\ Parsed(text).daysKind = "dict" /\ MissingDays(Parsed(text)) # <<>>

\* the exception the fallback synthesizer of a handler raises on this request
(***************************************************************************)
(* C1: every request that passes input validation ends in Finalized or     *)
(* Fallback with a result; no exception leaves the pipeline function.      *)
(***************************************************************************)
C1_NoEscape ==
    (PassedValidation /\ uc \in {"diet", "web"} /\ req.kind = "dict") =>
        /\ pc \notin {"Crashed", "Raised"}
        /\ exc = "none"
        /\ (status # -1 => pc \in {"Finalized", "Fallback"} /\ result # NoResult)

(***************************************************************************)
(* C2: in every use case a backend text that fails to parse as JSON, or    *)
(* parses but lacks a required field, produces a Fallback result; the      *)
(* failure is never raised to the caller.                                  *)
(***************************************************************************)
C2_AlwaysFallback ==
    (ParseFailed \/ LacksRequired) => (pc = "Fallback" /\ exc = "none")

(***************************************************************************)
(* C3: no returned result, Finalized or Fallback, lists an ingredient      *)
(* whose canonical name (lowercase, alias-folded) matches one of the       *)
(* request's intolerances / avoidIngredients.                              *)
(***************************************************************************)
CanonicalName(n) ==
    CASE n = "Peanuts" -> "peanuts"
      [] n = "groundnuts" -> "peanuts"
      [] n = "garbanzo beans" -> "chickpeas"
      [] OTHER -> n

Excluded == {CanonicalName(n) : n \in req.avoid \cup req.intol}

C3_NoIntolerance ==
    pc \in {"Finalized", "Fallback"} =>
        {CanonicalName(n) : n \in result.ings} \cap Excluded = {}

(***************************************************************************)
(* C4: every Fallback result has every field its use case's schema         *)
(* requires, each with the declared type.                                  *)
(***************************************************************************)
SchemaOK(u, res) ==
    CASE u = "diet" -> /\ res.kind = "obj"
                       /\ {"updatedWeeklyPlan", "replacements"} \subseteq res.lists
                       /\ "metrics" \in res.dicts
      [] u = "web" -> /\ res.kind = "obj"
                      /\ Range(RecipeRequired) \subseteq res.keys
                      /\ {"ingredients", "steps", "tags"} \subseteq res.lists
      [] u = "waste" -> res.kind = "obj" /\ Range(WasteKeys) \subseteq res.lists
      [] u = "shop" -> res.kind = "list"
      [] OTHER -> TRUE

C4_FallbackSchema == pc = "Fallback" => SchemaOK(uc, result)

(***************************************************************************)
(* C5: a returned result carries fallbackUsed = true and an error field    *)
(* if and only if the run ended in Fallback.                               *)
(***************************************************************************)
C5_FlagIffFallback ==
    pc \in {"Finalized", "Fallback"} =>
        ((result.flag /\ result.error # "none") <=> pc = "Fallback")

(***************************************************************************)
(* C6 as stated: an empty, unparseable, non-container or field-lacking     *)
(* request is reported at once; the backend is never invoked and no        *)
(* Fallback result is synthesized.  The recognized container is an object  *)
(* for diet balance, waste reduction and web recipe, an array for the      *)
(* shopping list.                                                          *)
(***************************************************************************)
Container(u) == IF u = "shop" THEN "list" ELSE "dict"

LacksMandatory(u, r) ==
    \/ u = "diet" /\ r.wp = "absent"
    \/ u = "waste" /\ r.recipes \in {"absent", "emptylist"}

InvalidRequest(u, r) ==
    \/ r.raw # "json"
    \/ r.kind # Container(u)
    \/ r.kind = "dict" /\ LacksMandatory(u, r)

\* the backend has not been called, nothing is returned, and the run ends with
\* status 1
Rejected ==
    /\ calls = 0
    /\ result = NoResult
    /\ pc \notin {"Invoked", "Sanitized", "Finalized", "Fallback", "Raised"}
    /\ status # 0
    /\ pc = "InputError" => status = 1

C6_Original == (uc \in Handlers /\ InvalidRequest(uc, req)) => Rejected

(***************************************************************************)
(* C6 amended: the statement holds for diet balance, waste reduction and   *)
(* web recipe; the shopping-list run has no input check of its own: an     *)
(* empty or unparseable request ends with the JSON error caught by main    *)
(* (status 1, nothing written), and any parseable JSON value, array or     *)
(* not, is sent to the backend.                                            *)
(***************************************************************************)
C6_InputErrorBypasses ==
    /\ (uc \in PipelineHandlers /\ InvalidRequest(uc, req)) => Rejected
    /\ (uc = "shop" /\ req.raw # "json") =>
            /\ Rejected
            /\ pc # "Start" => (pc = "Crashed" /\ exc = "JSONDecodeError" /\ status = 1 /\ out = "none")
    /\ (uc = "shop" /\ req.raw = "json") => pc \notin {"InputError", "Crashed"} \/ calls > 0

C6_Witness ==
    \/ uc = "diet" /\ req.kind = "dict" /\ req.wp = "absent" /\ pc = "InputError" /\ status = 1
    \/ uc = "waste" /\ req.recipes = "emptylist" /\ pc = "InputError" /\ status = 1

(***************************************************************************)
(* C7: a standalone run exits non-zero exactly when it reported an input   *)
(* error or an unrecoverable failure; a run ending in Fallback exits with  *)
(* status 0 and writes the fallback result, with its error field.          *)
(***************************************************************************)
C7_ExitStatus ==
    (uc \in Handlers /\ status # -1) =>
        /\ status = 1 <=> pc \in {"InputError", "Crashed"}
        /\ pc = "Fallback" => status = 0 /\ out = "result" /\ result.error # "none"

(***************************************************************************)
(* C8: after a transient gateway error with retries remaining (fewer than  *)
(* 3 invocations made) the run is back in Built and the backend is invoked *)
(* again; there are at most 3 invocations per run, and the run goes to     *)
(* Fallback on a transient error only when the retries are exhausted.      *)
(***************************************************************************)
C8_BoundedRetry ==
    /\ calls <= 3
    /\ (uc \in PipelineHandlers /\ gw = "transient" /\ calls < 3) => pc = "Built"

(***************************************************************************)
(* C9: once a permanent error or a response has come back, the backend is  *)
(* not invoked again in that run (the call count stays and the run never   *)
(* returns to Built), and the run ends in Fallback or Finalized.           *)
(***************************************************************************)
C9_NoReinvocation ==
    /\ [][(gw \in {"permanent", "response"}) => (calls' = calls /\ pc' # "Built")]_vars
    /\ []((gw \in {"permanent", "response"} /\ pc \in Terminal) => pc \in {"Fallback", "Finalized"})

(***************************************************************************)
(* C10 as stated: a signalled schema violation names every missing or      *)
(* mistyped required field.                                                *)
(***************************************************************************)
SchemaViolationSignalled ==
    /\ Decided
    /\ Parses(text)
    /\ \/ pc = "Raised" /\ why \in {"missing", "mistyped"}
       \/ uc = "web" /\ why = "ValueError"

\* every field of the parsed payload that violates the use case's schema
AllViolations(u, d) ==
    CASE u = "web" -> Missing(WebRequired, d)
      [] u = "recipe" -> Missing(RecipeRequired, d)
      [] u = "plan" -> IF Missing(<<"planId", "days">>, d) # <<>>
                       THEN Missing(<<"planId", "days">>, d)
                       ELSE MissingDays(d)
      [] u = "feedback" -> Mistyped(d)
      [] OTHER -> <<>>

C10_Original ==
    SchemaViolationSignalled => Range(AllViolations(uc, Parsed(text))) \subseteq named

(***************************************************************************)
(* C10 amended: the violation that is signalled names only the first       *)
(* missing or mistyped field in the validator's checking order; the one    *)
(* exception is validate_plan's message for planId/days, which names both  *)
(* fields whichever of them is missing.                                    *)
(***************************************************************************)
C10_FirstOnly ==
    SchemaViolationSignalled =>
        LET all == AllViolations(uc, Parsed(text))
        IN  /\ all # <<>>
            /\ IF uc = "plan" /\ Missing(<<"planId", "days">>, Parsed(text)) # <<>>
               THEN named = {"planId", "days"}
               ELSE named = {all[1]}

C10_Witness ==
    /\ SchemaViolationSignalled
    /\ Len(AllViolations(uc, Parsed(text))) >= 2
    /\ Cardinality(named) = 1

(***************************************************************************)
(* C11: when the parsed response is an object, diet balance and waste      *)
(* reduction return it with every key of theirs that it leaves out filled  *)
(* with the default (updatedWeeklyPlan: the request's weeklyPlan as it is, *)
(* replacements: an empty list, metrics: an empty mapping; the three waste *)
(* keys: empty lists) and with every key it supplies unchanged.            *)
(***************************************************************************)
FillKeys(u) == IF u = "diet" THEN Range(DietKeys) ELSE Range(WasteKeys)

DocumentedDefault(u, k) ==
    CASE u = "diet" /\ k = "updatedWeeklyPlan" -> "request"
      [] u = "diet" /\ k = "metrics" -> "emptydict"
      [] OTHER -> "emptylist"

ParsedObject == Decided /\ Parses(text) /\ Parsed(text).kind = "obj"

C11_DefaultsFilled ==
    (uc \in {"diet", "waste"} /\ ParsedObject) =>
        LET d == Parsed(text)
        IN  /\ pc = "Finalized"
            /\ result.kind = "obj"
            /\ result.keys = d.keys \cup FillKeys(uc)
            /\ DOMAIN result.val = result.keys
            /\ \A k \in d.keys :
                  /\ result.val[k] = "backend"
                  /\ k \in result.lists <=> k \in d.lists
                  /\ k \in result.dicts <=> k \in d.dicts
            /\ \A k \in FillKeys(uc) \ d.keys :
                  /\ result.val[k] = DocumentedDefault(uc, k)
                  /\ result.val[k] = "emptylist" => k \in result.lists /\ k \notin result.dicts
                  /\ result.val[k] = "emptydict" => k \in result.dicts /\ k \notin result.lists
            /\ (uc = "diet" /\ "updatedWeeklyPlan" \notin d.keys) =>
                  /\ result.planFrom = "request"
                  /\ result.plan = req.meals
                  /\ "updatedWeeklyPlan" \in result.lists <=> req.wp = "list"
                  /\ "updatedWeeklyPlan" \in result.dicts <=> req.wp = "emptydict"
            /\ result.flag = d.flag

C11_Witness ==
    /\ ParsedObject
    /\ \/ /\ uc = "diet"
          /\ Parsed(text).keys = {}
          /\ Len(req.meals) = 2
          /\ result.plan = req.meals
          /\ result.val["metrics"] = "emptydict"
       \/ /\ uc = "waste"
          /\ Parsed(text).keys = {"optimizedRecipes"}
          /\ result.val["shoppingList"] = "emptylist"
          /\ result.val["optimizedRecipes"] = "backend"

(***************************************************************************)
(* C12: every weekly plan that validate_plan returns has exactly the seven *)
(* weekdays as the keys of its days object: none is missing and there is   *)
(* no other key.  (A parsed JSON object holds each key once, so no day     *)
(* occurs twice.)                                                          *)
(***************************************************************************)
PlanAccepted == uc = "plan" /\ pc = "Finalized"

C12_ExactlySevenDays ==
    PlanAccepted =>
        /\ DOMAIN result.days = DaySet
        /\ Cardinality(DOMAIN result.days) = Len(RequiredDays)

(***************************************************************************)
(* C13: a recipe returned as a success (Finalized) by the plain generator's *)
(* validator or by the web-search generator is an object with all seven    *)
(* fields id, title, ingredients, steps, cookTimeMins, tags, servings.     *)
(***************************************************************************)
C13_SevenFields ==
    (uc \in {"web", "recipe"} /\ pc = "Finalized") =>
        /\ result.kind = "obj"
        /\ Range(RecipeRequired) \subseteq result.keys

(***************************************************************************)
(* C14: the normalized shopping list has one entry for every canonical     *)
(* name and unit of the request's entries, its quantity the sum of theirs  *)
(* (whatever the order of the request); entries whose unit cannot be read  *)
(* stay separate.                                                          *)
(***************************************************************************)
UnreadableUnit == "?"

RECURSIVE SumQty(_, _, _)
SumQty(items, n, u) ==
    IF items = <<>> THEN 0
    ELSE (IF CanonicalName(Head(items).name) = n /\ Head(items).unit = u THEN Head(items).qty ELSE 0)
         + SumQty(Tail(items), n, u)

Merged(items) ==
    {Entry(CanonicalName(e.name), SumQty(items, CanonicalName(e.name), e.unit), e.unit) :
        e \in {x \in Range(items) : x.unit # UnreadableUnit}}
    \cup {Entry(CanonicalName(e.name), e.qty, e.unit) : e \in {x \in Range(items) : x.unit = UnreadableUnit}}

C14_Aggregation ==
    (uc = "shop" /\ req.kind = "list" /\ req.items # <<>> /\ pc = "Finalized") =>
        /\ result.kind = "list"
        /\ Range(result.items) = Merged(req.items)
        /\ Len(result.items) = Cardinality(Merged(req.items))

(***************************************************************************)
(* C15: normalizing a list that is already normalized (canonical names,    *)
(* one entry for a name and unit, sorted by name) returns it unchanged.    *)
(***************************************************************************)
Alphabetical == <<"chickpeas", "garbanzo beans", "rice">>

NameIndex(n) == CHOOSE i \in 1..Len(Alphabetical) : Alphabetical[i] = n

IsNormalized(items) ==
    /\ Range(items) = Merged(items)
    /\ Len(items) = Cardinality(Merged(items))
    /\ \A i \in 1..(Len(items) - 1) : NameIndex(items[i].name) <= NameIndex(items[i + 1].name)

C15_Idempotent ==
    (uc = "shop" /\ req.kind = "list" /\ req.items # <<>> /\ IsNormalized(req.items)
     /\ pc = "Finalized") =>
        /\ result.kind = "list"
        /\ result.items = req.items

(***************************************************************************)
(* C16: concurrent runs do not interfere.  Whatever the interleaving of    *)
(* two calls, a call that has ended holds the outcome that the same        *)
(* request and the same backend answer give when the call runs alone, and  *)
(* the module-level model object is never written.                         *)
(***************************************************************************)
\* the outcome of one call run alone on request r with backend answer a
Alone(u, r, a) ==
    IF PromptRaises(u, r) # "none" THEN SynthesizeFallback(u, r, PromptRaises(u, r), {})
    ELSE IF a.kind = "error" THEN OnGatewayError(u, r, a.err)
    ELSE IF Parses(SanitizeFor(u, a.text)) THEN OnParsed(u, r, Parsed(SanitizeFor(u, a.text)))
    ELSE OnParseFailure(u, r)

C16_NoInterference ==
    /\ model = ModelName
    /\ \A i \in DOMAIN runs :
          runs[i].pc \in Terminal =>
              LET o == Alone(runs[i].uc, runs[i].req, answers[i])
              IN  /\ runs[i].pc = o.pc
                  /\ runs[i].result = o.result
                  /\ runs[i].exc = o.exc
                  /\ answers[i].kind # "none" => answers[i].model = ModelName

\* one call has ended with a result while the other, answered differently, is in flight
C16_Witness ==
    /\ DOMAIN runs = Runs
    /\ runs["a"].pc = "Finalized"
    /\ runs["b"].pc = "Invoked"
    /\ runs["a"].uc = runs["b"].uc
    /\ answers["a"].kind = "text" /\ answers["b"].kind = "text"
    /\ answers["a"].text # answers["b"].text

(***************************************************************************)
(* C17: the sanitizer strips the whitespace around the text and, only when *)
(* the text begins with a fence marker line, removes that line and a       *)
(* closing marker line; every other line stays, so a last line that is no  *)
(* marker is kept.  The handlers' and the validators' sanitizer both give  *)
(* this result.                                                            *)
(***************************************************************************)
FenceStripped(r) ==
    LET t == Strip(r)
    IN  IF t # <<>> /\ t[1] \in {Fence, FenceJson}
        THEN IF Len(t) > 1 /\ t[Len(t)] = Fence THEN SubSeq(t, 2, Len(t) - 1) ELSE Tail(t)
        ELSE t

C17_SanitizerContract ==
    (pc = "Sanitized" /\ uc # "shop") =>
        /\ text = FenceStripped(raw)
        /\ SanitizeHandler(raw) = FenceStripped(raw)
        /\ SanitizeValidator(raw) = FenceStripped(raw)

(***************************************************************************)
(* C18: the diet-balance fallback flags a plan entry for replacement if    *)
(* and only if its recipe id occurs in one of the last 4 history entries   *)
(* (all of them when the history is shorter); an id found only in older    *)
(* weeks is not flagged.  Every flagged entry has the reason "Recipe used  *)
(* in past 4 weeks" and the placeholder replacement_needed, which is no    *)
(* recipe id.                                                              *)
(***************************************************************************)
\* the ids of the history entries that are among the last four
WindowIds(r) ==
    UNION {r.weeks[i].recipes : i \in {j \in 1..Len(r.weeks) : Len(r.weeks) - j < HistoryWindow}}

InWindow(m) == m.rid \in WindowIds(req)

C18_FlaggedIffRecent ==
    (uc = "diet" /\ pc = "Fallback") =>
        LET flagged == SelectSeq(req.meals, InWindow)
        IN  /\ Len(result.repl) = Len(flagged)
            /\ \A i \in 1..Len(flagged) :
                  /\ result.repl[i].originalRecipeId = flagged[i].rid
                  /\ result.repl[i].reason = "Recipe used in past 4 weeks"
                  /\ result.repl[i].newRecipeId = "replacement_needed"
                  /\ result.repl[i].newRecipeId \notin RecipeIds
            /\ result.plan = req.meals

\* the first plan entry's id is only in the week older than the last four, the
\* second one's is in the window
C18_Witness ==
    /\ uc = "diet" /\ pc = "Fallback"
    /\ Len(req.weeks) = 5
    /\ Len(req.meals) = 2
    /\ req.meals[1].rid \in req.weeks[1].recipes
    /\ req.meals[1].rid \notin WindowIds(req)
    /\ req.meals[2].rid \in WindowIds(req)
    /\ Len(result.repl) = 1
    /\ result.repl[1].originalRecipeId = req.meals[2].rid

(***************************************************************************)
(* C19: for a plan that passes the structural checks, validate_plan        *)
(* compares every day's recipe's cookTimeMins with the day's maxCookMins   *)
(* (30 when the day has none) and prints a warning for exactly the days    *)
(* whose cookTimeMins is over their maximum; the plan is returned all the  *)
(* same, with the day-to-recipe assignment of the response.                *)
(***************************************************************************)
\* the parsed plan has planId and all seven weekdays, every recipe of the pool has an
\* id, and every id of the plan is in the pool
StructurallyValid(d) ==
    /\ \A i \in 1..Len(req.pool) : req.pool[i].id # NoId
    /\ d.kind = "obj"
    /\ {"planId", "days"} \subseteq d.keys
    /\ d.daysKind = "dict"
    /\ DaySet \subseteq DOMAIN d.days
    /\ \A x \in DOMAIN d.days : \E i \in 1..Len(req.pool) : req.pool[i].id = d.days[x]

\* the cook time the statement compares: the cookTimeMins of the pool's recipe of
\* that id, whatever its value (the older cook_time_minutes stands in only for a
\* recipe that has no cookTimeMins at all)
CookTimeMinsOf(id) ==
    LET rec == CHOOSE x \in Range(req.pool) : x.id = id
    IN  IF rec.has THEN rec.cook ELSE rec.alt

ConfiguredMax(x) ==
    IF x \in DOMAIN req.prefs /\ req.prefs[x].has THEN req.prefs[x].max ELSE DefaultMaxCook

OverBudget(d) == {x \in DOMAIN d.days : CookTimeMinsOf(d.days[x]) > ConfiguredMax(x)}

C19_WarnOnly ==
    (uc = "plan" /\ Decided /\ Parses(text)) =>
        LET d == Parsed(text)
        IN  /\ StructurallyValid(d) =>
                  /\ pc = "Finalized"
                  /\ result.days = d.days
                  /\ Range(result.warn) = OverBudget(d)
                  /\ Len(result.warn) = Cardinality(OverBudget(d))
            /\ ~StructurallyValid(d) => pc # "Finalized" /\ result.warn = <<>>

(***************************************************************************)
(* C20: the varietyScore of a result is the class of the plan's counts of  *)
(* distinct main ingredients i and distinct cuisines c: high exactly when  *)
(* i >= 7 and c >= 3, medium exactly when 5 <= i <= 6 and 2 <= c <= 3, low *)
(* in every other case; no other value appears in a result.                *)
(***************************************************************************)
VarietyClass(i, c) ==
    IF i >= 7 /\ c >= 3 THEN "high"
    ELSE IF i >= 5 /\ i <= 6 /\ c >= 2 /\ c <= 3 THEN "medium"
    ELSE "low"

C20_VarietyClassification ==
    (uc = "diet" /\ pc \in {"Finalized", "Fallback"} /\ result.variety # "none") =>
        /\ result.variety \in {"high", "medium", "low"}
        /\ result.variety = VarietyClass(req.mainIngredients, req.cuisines)

(***************************************************************************)
(* C21: the ratios a result reports are computed from the tags: every meal *)
(* takes the first matching row of the table (protein-rich 40/30/30;       *)
(* carbs, pasta or rice 15/60/25; healthy-fat or avocado 20/30/50;         *)
(* balanced, or no tag, 30/40/30), the day's ratios are the mean over its  *)
(* meals, and the three components add up to 100%.  Ratios are in          *)
(* thousandths.                                                            *)
(***************************************************************************)
MacroRow(tags) ==
    IF "protein-rich" \in tags THEN <<400, 300, 300>>
    ELSE IF tags \cap {"carbs", "pasta", "rice"} # {} THEN <<150, 600, 250>>
    ELSE IF tags \cap {"healthy-fat", "avocado"} # {} THEN <<200, 300, 500>>
    ELSE <<300, 400, 300>>

RECURSIVE MacroSum(_, _)
MacroSum(day, k) == IF day = <<>> THEN 0 ELSE MacroRow(Head(day))[k] + MacroSum(Tail(day), k)

C21_MacroRatios ==
    (uc = "diet" /\ pc \in {"Finalized", "Fallback"} /\ result.macros # <<>> /\ req.dayTags # <<>>) =>
        /\ \A k \in 1..3 : result.macros[k] * Len(req.dayTags) = MacroSum(req.dayTags, k)
        /\ result.macros[1] + result.macros[2] + result.macros[3] = 1000

(***************************************************************************)
(* C22: a fallback of the diet-balance agent is computed from the request  *)
(* alone: its updatedWeeklyPlan is the request's weeklyPlan (same entries, *)
(* same order), nothing in it comes from the backend, its replacements     *)
(* hold one entry per flagged entry of the plan, in plan order, and        *)
(* replacementsCount = repeatedRecipes = len(replacements), which never    *)
(* exceeds the number of entries of the plan.                              *)
(***************************************************************************)
FlaggedAt == {i \in 1..Len(req.meals) : req.meals[i].rid \in WindowIds(req)}

C22_FallbackFromRequest ==
    (uc = "diet" /\ pc = "Fallback") =>
        /\ result.plan = req.meals
        /\ result.planFrom = "request"
        /\ \A k \in DOMAIN result.val : result.val[k] # "backend"
        /\ Len(result.repl) = Cardinality(FlaggedAt)
        /\ \A j \in FlaggedAt :
              result.repl[Cardinality({k \in FlaggedAt : k <= j})].originalRecipeId = req.meals[j].rid
        /\ result.replacementsCount = Len(result.repl)
        /\ result.repeatedRecipes = Len(result.repl)
        /\ Len(result.repl) <= Len(req.meals)

C22_Witness ==
    /\ uc = "diet" /\ pc = "Fallback"
    /\ Len(req.meals) = 2
    /\ result.plan = req.meals
    /\ FlaggedAt = {2}
    /\ result.replacementsCount = 1
    /\ result.repeatedRecipes = 1

(***************************************************************************)
(* C23: whatever text the backend returns and whatever pool is passed,     *)
(* validate_plan, validate_and_parse_recipe and validate_and_parse_feedback *)
(* return the parsed value or raise ValueError; no other exception (a      *)
(* KeyError, a TypeError, an AttributeError) leaves them.                  *)
(***************************************************************************)
C23_OnlyValueError ==
    (uc \in Validators /\ Decided) =>
        \/ pc = "Finalized" /\ exc = "none"
        \/ pc = "Raised" /\ exc = "ValueError"

(***************************************************************************)
(* C24: every recipe id a returned plan assigns to a key of its days       *)
(* object, weekday or not, is the id of a recipe of the pool; a plan that  *)
(* assigns an id outside the pool to any key is never returned, and when   *)
(* the pool's ids can be read it is rejected by the ValueError of the id   *)
(* check, which names the first such key.                                  *)
(***************************************************************************)
IdsOfPool == {req.pool[i].id : i \in 1..Len(req.pool)} \ {NoId}

\* the keys of the parsed plan's days object whose recipe id is not in the pool
Strangers(d) == {x \in DOMAIN d.days : d.days[x] \notin IdsOfPool}

C24_IdsFromPool ==
    (uc = "plan" /\ Decided /\ Parses(text)) =>
        LET d == Parsed(text)
        IN  /\ pc = "Finalized" => \A x \in DOMAIN result.days : result.days[x] \in IdsOfPool
            /\ (d.daysKind = "dict" /\ Strangers(d) # {}) => pc # "Finalized"
            /\ (d.daysKind = "dict" /\ Strangers(d) # {} /\ DaySet \subseteq DOMAIN d.days
                /\ "planId" \in d.keys /\ \A i \in 1..Len(req.pool) : req.pool[i].id # NoId) =>
                    /\ pc = "Raised" /\ exc = "ValueError" /\ why = "invalid_id"
                    /\ named \subseteq Strangers(d)
                    /\ named # {}

C24_Witness ==
    /\ uc = "plan" /\ Decided /\ Parses(text)
    /\ DaySet \cup {ExtraDay} \subseteq DOMAIN Parsed(text).days
    /\ Parsed(text).days[ExtraDay] \notin IdsOfPool
    /\ \A x \in DaySet : Parsed(text).days[x] \in IdsOfPool
    /\ pc = "Raised" /\ why = "invalid_id" /\ named = {ExtraDay}

====
